---------------------------- MODULE Spec2Model ----------------------------
(***************************************************************************)
(* A model of the switch of examples/switch.rs: the interface table, the   *)
(* inner-connection table, the receive loop and the dispatch of one        *)
(* received datagram (send, self-delivery, inner CryptoAuth messages,      *)
(* get-peers replies and the random housekeeping traffic), together with   *)
(* the DataPacket decoder of src/data_packet.rs.                           *)
(*                                                                         *)
(* The calls of one datagram's handling nest (send calls                   *)
(* on_self_interface_switch_packet, which calls send again, ...).  The     *)
(* model keeps the pending calls on `stack', head first, in the order the  *)
(* code would run them; loop_ receives the next datagram only once the     *)
(* stack is empty, so the steps of one datagram never interleave with the  *)
(* next.  A panic (unwrap, assert, unimplemented!, an index out of range)  *)
(* ends the process: status becomes "panicked" and nothing is enabled.     *)
(*                                                                         *)
(* Three specifications: Spec, the switch; LiveSpec, the switch with the   *)
(* handle loop's repeated draws and the fairness of a running program, for *)
(* termination; RouterSpec, reverse_iface_id and reverse_label applied to  *)
(* every interface id and label of the bounds.                             *)
(***************************************************************************)
EXTENDS Integers, Sequences, FiniteSets, TLC

----------------------------------------------------------------------------
(* Bounds of the model *)

\* inner connections the model lets a run open; the random 32-bit handle is
\* drawn from MaxConns + 1 values, so that a free one always exists
MaxConns == 2
\* packets one wrap_message call of an outer session returns at most
MaxWrap == 1
\* random draws above the threshold (housekeeping emitted) per received datagram
MaxDraws == 1
\* director windows of the labels the label router is applied to on its own
MaxWindows == 2

----------------------------------------------------------------------------
(* Program constants *)

\* version: 18 of the Pong, the Ping, the NodeData and the RoutePacketBuilder
Version == 18
\* my_pk, the public key of this switch
MyPk == 1
\* Interface { id: 0b011, .. }, the statically configured peer of main
StaticId == 3
\* self.send(&mut packet_response, 0b001): the interface replies are sent from
ReplyFrom == 1
\* the content type of a RoutePacket
RouteContentType == 256
\* DataPacket::new(1, ..): the version the switch writes in its data packets
DataVersion == 1
\* first_four_bytes < 4: a CryptoAuth handshake packet
HandshakeLimit == 4
\* first_four_bytes == 0xffffffff: a control packet (the four bytes, big-endian)
ControlMarker == <<255, 255, 255, 255>>
\* the director that means "this switch"
SelfDirector == 0

\* opaque_data: vec![1, 2, 3, 4, 5, 6, 7, 8]
Probe == <<1, 2, 3, 4, 5, 6, 7, 8>>

\* path: [0, 0, 0, 0, 0, 0, 0, 0b001], as the label's 3-bit windows, lowest first
SelfPath == <<1, 0>>

----------------------------------------------------------------------------
(* Input domains *)

\* dest, the address of the static peer, and the addresses datagrams may also come from
StaticAddr == "dest"
Addrs == {"dest", "a1", "a2"}

\* the public keys of remote nodes are 2 and 3

FirstHandle == HandshakeLimit
Handles == FirstHandle..(FirstHandle + MaxConns)
\* peer_session_handle(): 0 stands for None
NoHandle == 0

Opaques == {Probe, <<8, 7, 6, 5, 4, 3, 2, 1>>}
Versions == {17, Version}

\* labels of the frames to forward: the window switched on first, then the next one
FwdLabels == {<<a, b>> : a \in {1, 3, 5}, b \in {1}}


----------------------------------------------------------------------------
(* Values *)

\* a CryptoAuth packet of an inner session, as far as the switch can tell:
\* head: its first bytes (all of them when it is shorter than four);
\* pk: the remote key of the session it belongs to; ok: whether the crypto
\* layer accepts it; ph: the session handle its sender announces (0: none);
\* msgs: the data packets it carries
NoCt == [head |-> <<>>, pk |-> 0, ok |-> FALSE, ph |-> NoHandle, msgs |-> <<>>]

ControlPkt(label, kind, version, opaque) ==
    [label |-> label, kind |-> kind, version |-> version, opaque |-> opaque,
     handle |-> NoHandle, ct |-> NoCt]

HandshakePkt(label, ct) ==
    [label |-> label, kind |-> "hs", version |-> 0, opaque |-> <<>>,
     handle |-> NoHandle, ct |-> ct]

DataPkt(label, handle, ct) ==
    [label |-> label, kind |-> "data", version |-> 0, opaque |-> <<>>,
     handle |-> handle, ct |-> ct]

\* a switch packet whose payload() is none of Ping, Pong, handshake, data
OtherPkt(label) ==
    [label |-> label, kind |-> "other", version |-> 0, opaque |-> <<>>,
     handle |-> NoHandle, ct |-> NoCt]

NoPkt == OtherPkt(<<>>)

NoRoute == [query |-> "none", tid |-> 0, nodes |-> <<>>]

----------------------------------------------------------------------------
(* Label Router *)

\* a table whose row for 0b110 gives 0b110
reverse_iface_id_Row6(iface_id) ==
    CASE iface_id = 0 -> 0
      [] iface_id = 1 -> 4
      [] iface_id = 2 -> 2
      [] iface_id = 3 -> 6
      [] iface_id = 4 -> 1
      [] iface_id = 5 -> 5
      [] iface_id = 6 -> 6
      [] iface_id = 7 -> 7
      [] OTHER -> -1

reverse_iface_id(iface_id) ==
    CASE iface_id = 0 -> 0
      [] iface_id = 1 -> 4
      [] iface_id = 2 -> 2
      [] iface_id = 3 -> 6
      [] iface_id = 4 -> 1
      [] iface_id = 5 -> 5
      [] iface_id = 6 -> 3
      [] iface_id = 7 -> 7
      [] OTHER -> -1

\* the bits of the whole label reversed: the windows bit-reversed and their order too
reverse_label_WholeLabel(label) ==
    [i \in DOMAIN label |-> reverse_iface_id(label[Len(label) + 1 - i])]

\* reverse_label: every window replaced by its bit-reversal, window order kept
reverse_label(label) == [i \in DOMAIN label |-> reverse_iface_id(label[i])]

\* SwitchPacket::switch: the routing decision, "self" or "forward" to a director
SwitchDecision(label) ==
    IF label[1] = SelfDirector
    THEN [to |-> "self", director |-> label[1]]
    ELSE [to |-> "forward", director |-> label[1]]

\* SwitchPacket::switch: the label after the decision (rotated on a forward,
\* the reversed arrival director entering at the far end)
SwitchLabel(label, reversed_origin_iface) ==
    IF label[1] = SelfDirector
    THEN label
    ELSE Tail(label) \o <<reversed_origin_iface>>

\* SwitchPacket::new_reply: the payload on the reverse of the replied-to label
new_reply(replied_to_packet, payload) ==
    [payload EXCEPT !.label = reverse_label(replied_to_packet.label)]

----------------------------------------------------------------------------
(* RoutePacket codec: query byte, transaction id, then four bytes per node *)

QueryCode(query) == CASE query = "gp" -> 1 [] query = "fn" -> 2 [] OTHER -> 0
QueryOfCode(b) == CASE b = 1 -> "gp" [] b = 2 -> "fn" [] OTHER -> "none"

NodeData(public_key, path, version) ==
    [public_key |-> public_key, path |-> path, version |-> version]

RECURSIVE EncodeNodes(_)
EncodeNodes(nodes) ==
    IF nodes = <<>> THEN <<>>
    ELSE <<Head(nodes).public_key, Head(nodes).path[1], Head(nodes).path[2],
           Head(nodes).version>> \o EncodeNodes(Tail(nodes))

RECURSIVE DecodeNodes(_)
DecodeNodes(bytes) ==
    IF Len(bytes) < 4 THEN <<>>
    ELSE <<NodeData(bytes[1], <<bytes[2], bytes[3]>>, bytes[4])>>
         \o DecodeNodes(SubSeq(bytes, 5, Len(bytes)))

RouteEncode(route) == <<QueryCode(route.query), route.tid>> \o EncodeNodes(route.nodes)

RouteDecode(bytes) ==
    IF Len(bytes) >= 2 /\ bytes[1] \in 0..2 /\ (Len(bytes) - 2) % 4 = 0
    THEN [ok |-> TRUE,
          route |-> [query |-> QueryOfCode(bytes[1]), tid |-> bytes[2],
                     nodes |-> DecodeNodes(SubSeq(bytes, 3, Len(bytes)))]]
    ELSE [ok |-> FALSE, route |-> NoRoute]

----------------------------------------------------------------------------
(* DataPacket (src/data_packet.rs).  A result's tag is "ok", "err" (the     *)
(* function returned Err) or "panic" (the function did not return).         *)

DataResult(tag, why, value, route) ==
    [tag |-> tag, why |-> why, value |-> value, route |-> route]

\* DataPacket::new: version in the top five bits, then content type 256
DataPacketNew(version, route) ==
    <<version * 8, 0, RouteContentType \div 256, RouteContentType % 256>>
    \o RouteEncode(route)

\* self.raw[0] >> 3
DataPacket_version(raw) ==
    IF Len(raw) < 1
    THEN DataResult("panic", "index out of bounds", 0, NoRoute)
    ELSE DataResult("ok", "", raw[1] \div 8, NoRoute)

\* BigEndian::read_u16(&self.raw[2..4])
DataPacket_content_type(raw) ==
    IF Len(raw) < 4
    THEN DataResult("panic", "index out of bounds", 0, NoRoute)
    ELSE DataResult("ok", "", raw[3] * 256 + raw[4], NoRoute)

DataPacket_payload(raw) ==
    LET content_type == DataPacket_content_type(raw) IN
    IF content_type.tag = "panic" THEN content_type
    ELSE IF content_type.value = RouteContentType
    THEN LET d == RouteDecode(SubSeq(raw, 5, Len(raw))) IN
         IF d.ok THEN DataResult("ok", "", content_type.value, d.route)
         ELSE DataResult("err", "", content_type.value, NoRoute)
    ELSE DataResult("panic", "not implemented", content_type.value, NoRoute)

\* impl fmt::Display for DataPacket: version(), content_type(), payload()
DataPacket_fmt(raw) ==
    IF DataPacket_version(raw).tag = "panic" THEN DataPacket_version(raw)
    ELSE IF DataPacket_content_type(raw).tag = "panic" THEN DataPacket_content_type(raw)
    ELSE IF DataPacket_payload(raw).tag = "panic" THEN DataPacket_payload(raw)
    ELSE DataResult("ok", "", 0, NoRoute)


----------------------------------------------------------------------------
(* What the network may deliver *)

\* the transaction id of b"blah", and the one of the queries received
BlahTid == 98
InTids == {7}

Route(query, tid, nodes) == [query |-> query, tid |-> tid, nodes |-> nodes]

GpQueryRaws == {DataPacketNew(DataVersion, Route("gp", t, <<>>)) : t \in InTids}
GpQueryRaw == CHOOSE r \in GpQueryRaws : TRUE
FnQueryRaw == DataPacketNew(DataVersion, Route("fn", BlahTid, <<>>))
\* content type 257
Ct257Raw == <<8, 0, 1, 1, 1, 7>>
\* shorter than the four-byte header
Short3Raw == <<8, 0, 1>>
EmptyRaw == <<>>
\* content type 256 with bytes RoutePacket::decode rejects
BadBodyRaw == <<8, 0, 1, 0, 9>>

Raws == {GpQueryRaw, FnQueryRaw, Ct257Raw, Short3Raw, EmptyRaw, BadBodyRaw}

\* what one CryptoAuth data packet unwraps to: zero, one or several data packets
InnerBatches ==
    {<<>>} \cup {<<r>> : r \in Raws} \cup {<<GpQueryRaw, Ct257Raw>>}

HelloHead == <<0, 0, 0, 0>>
DataHead == <<0, 0, 0, 9>>

\* the handshakes of remote nodes: (public key, announced handle, label of the
\* frame), each with one of three first data packets
HandshakePeers ==
    {<<2, FirstHandle + 1, <<SelfDirector, 1>>>>,
     <<3, FirstHandle + 1, <<SelfDirector, 3>>>>,
     <<3, NoHandle, <<SelfDirector, 1>>>>}

HandshakePkts ==
    {HandshakePkt(p[3], [head |-> HelloHead, pk |-> p[1], ok |-> TRUE, ph |-> p[2],
                         msgs |-> <<r>>]) :
        p \in HandshakePeers, r \in {GpQueryRaw, FnQueryRaw, EmptyRaw}}
    \cup \* one the crypto layer rejects
         {HandshakePkt(<<SelfDirector, 1>>,
                       [head |-> HelloHead, pk |-> 2, ok |-> FALSE, ph |-> NoHandle,
                        msgs |-> <<>>])}

DataCts ==
    {[head |-> DataHead, pk |-> 2, ok |-> TRUE, ph |-> NoHandle, msgs |-> b] : b \in InnerBatches}
    \cup {[head |-> DataHead, pk |-> 3, ok |-> TRUE, ph |-> NoHandle, msgs |-> <<GpQueryRaw>>],
          [head |-> DataHead, pk |-> 2, ok |-> FALSE, ph |-> NoHandle, msgs |-> <<>>]}

SelfPackets ==
    {ControlPkt(<<SelfDirector, 1>>, "ping", v, o) : v \in Versions, o \in Opaques}
    \cup {ControlPkt(<<SelfDirector, 3>>, "pong", Version, o) : o \in Opaques}
    \cup HandshakePkts
    \cup {DataPkt(<<SelfDirector, 1>>, h, ct) : h \in Handles, ct \in DataCts}
    \cup {OtherPkt(<<SelfDirector, 1>>)}

FwdPackets ==
    {ControlPkt(l, "ping", Version, Probe) : l \in FwdLabels}
    \cup {DataPkt(l, FirstHandle, [head |-> DataHead, pk |-> 2, ok |-> TRUE,
                                  ph |-> NoHandle, msgs |-> <<GpQueryRaw>>]) : l \in FwdLabels}

InPackets == SelfPackets \cup FwdPackets

\* what one datagram of an established outer session unwraps to
OuterBatches ==
    {<<>>} \cup {<<p>> : p \in InPackets}
    \cup {<<ControlPkt(<<SelfDirector, 1>>, "ping", Version, Probe), p>> : p \in FwdPackets}

\* the number of packets one upkeep() call returns
UpkeepCounts == {0, 1}

\* the first bytes of the packets wrap_message_immediately returns
WrapHeads == {<<0, 0, 0, 1>>, DataHead, ControlMarker, <<0, 0>>}
WrapOutputs == {<<>>} \cup {<<h>> : h \in WrapHeads} \cup {<<DataHead, DataHead>>}


----------------------------------------------------------------------------
(* State *)

VARIABLES
    interfaces,   \* Switch.interfaces: a sequence of [id, ca_session, addr]
    inner_conns,  \* Switch.inner_conns: handle -> [path, their_pk, peer_handle]
    status,       \* "running", or "panicked" once the process has died
    pc,           \* loop_: "upkeep" before the sweep, "recv" before recv_from
    stack,        \* the calls still to run for the datagram being handled
    draws,        \* random draws above the threshold since the last recv_from
    sent,         \* the datagrams the last step handed to sock.send_to
    last          \* what the last step did

vars == <<interfaces, inner_conns, status, pc, stack, draws, sent, last>>

Interface(id, ca_session, addr) == [id |-> id, ca_session |-> ca_session, addr |-> addr]

\* an outer session: who it was opened with, and by whom
OuterSession(addr, role) == [with |-> addr, role |-> role]

InnerConn(path, their_pk, peer_handle) ==
    [path |-> path, their_pk |-> their_pk, peer_handle |-> peer_handle]

Datagram(iface, packet, kind) ==
    [to |-> iface.addr, session |-> iface.ca_session, packet |-> packet, kind |-> kind]

Task(op, pkt, from, handle, msg) ==
    [op |-> op, pkt |-> pkt, from |-> from, handle |-> handle, msg |-> msg]
SendTask(pkt, from) == Task("send", pkt, from, NoHandle, <<>>)
InnerTask(pkt, handle, msg) == Task("inner", pkt, NoHandle, handle, msg)
RandPingTask(pkt) == Task("random_send_switch_ping", pkt, NoHandle, NoHandle, <<>>)
RandGpTask(pkt, handle) == Task("random_send_getpeers", pkt, NoHandle, handle, <<>>)

NoResult == DataResult("none", "", 0, NoRoute)

\* the record of a step: the operation, the frame it handled, and what it built
Last(op, pkt) ==
    [op |-> op, pkt |-> pkt, from |-> "", iface |-> -1, handle |-> NoHandle, raw |-> <<>>,
     dec |-> NoResult, nodes |-> <<>>, out |-> <<>>, why |-> ""]

RECURSIVE SendTasks(_, _)
SendTasks(pkts, from) ==
    IF pkts = <<>> THEN <<>>
    ELSE <<SendTask(Head(pkts), from)>> \o SendTasks(Tail(pkts), from)

RECURSIVE InnerTasks(_, _, _)
InnerTasks(pkt, handle, msgs) ==
    IF msgs = <<>> THEN <<>>
    ELSE <<InnerTask(pkt, handle, Head(msgs))>> \o InnerTasks(pkt, handle, Tail(msgs))

\* main: one static peer, no inner connection
Init ==
    /\ interfaces = <<Interface(StaticId, OuterSession(StaticAddr, "outgoing"), StaticAddr)>>
    /\ inner_conns = <<>>
    /\ status = "running"
    /\ pc = "upkeep"
    /\ stack = <<>>
    /\ draws = 0
    /\ sent = <<>>
    /\ last = Last("new", NoPkt)

\* a panic: the process ends where it is
Died(op, pkt, why) == [Last(op, pkt) EXCEPT !.why = why]

Panic(record) ==
    /\ status' = "panicked"
    /\ last' = record
    /\ sent' = <<>>
    /\ UNCHANGED <<interfaces, inner_conns, pc, stack, draws>>

Running == status = "running"
Top == Head(stack)
At(op) == Running /\ stack # <<>> /\ Top.op = op


----------------------------------------------------------------------------
(* loop_: the maintenance sweep, then one datagram *)

RECURSIVE Repeat(_, _)
Repeat(x, n) == IF n = 0 THEN <<>> ELSE <<x>> \o Repeat(x, n - 1)

\* a sweep over the first interface of the table only
UpkeepDatagrams_FirstOnly(ifs, counts) ==
    IF ifs = <<>> THEN <<>>
    ELSE Repeat(Datagram(Head(ifs), NoPkt, "upkeep"), Head(counts))

\* for interface in self.interfaces: for packet in upkeep(): send_to(packet, addr)
RECURSIVE UpkeepDatagrams(_, _)
UpkeepDatagrams(ifs, counts) ==
    IF ifs = <<>> THEN <<>>
    ELSE Repeat(Datagram(Head(ifs), NoPkt, "upkeep"), Head(counts))
         \o UpkeepDatagrams(Tail(ifs), Tail(counts))

\* counts[i] is the number of packets upkeep() returns for interface i
Upkeep ==
    /\ Running /\ pc = "upkeep" /\ stack = <<>>
    /\ \E counts \in [1..Len(interfaces) -> UpkeepCounts] :
          /\ sent' = UpkeepDatagrams(interfaces, counts)
          /\ last' = [Last("upkeep", NoPkt) EXCEPT !.out = counts]
    /\ pc' = "recv"
    /\ UNCHANGED <<interfaces, inner_conns, status, stack, draws>>

\* the number of interfaces taken as the next id
next_iface_id_Count(ifs) == Len(ifs)

\* (0..0b1000).filter(|candidate| no interface has it).next(): -1 stands for None
next_iface_id(ifs) ==
    LET used == {ifs[i].id : i \in 1..Len(ifs)}
        free == (0..7) \ used
    IN IF free = {} THEN -1 ELSE CHOOSE c \in free : \A d \in free : c <= d

\* a lookup that never finds the address
IfaceOfAddr_Never(ifs, from_addr) == 0

\* the first interface whose address is from_addr, 0 when there is none
IfaceOfAddr(ifs, from_addr) ==
    LET hits == {i \in 1..Len(ifs) : ifs[i].addr = from_addr}
    IN IF hits = {} THEN 0 ELSE CHOOSE i \in hits : \A j \in hits : i <= j

\* handshakes of a batch that would open an inner connection
OpeningHandshakes(batch) ==
    Cardinality({i \in 1..Len(batch) : batch[i].kind = "hs" /\ batch[i].ct.ok
                                        /\ batch[i].label[1] = SelfDirector})

Admissible(batch) ==
    Cardinality(DOMAIN inner_conns) + OpeningHandshakes(batch) <= MaxConns

\* recv_from, on_outer_ca_message and get_incoming_iface_and_open, for a
\* datagram of a known interface
RecvKnown ==
    /\ Running /\ pc = "recv"
    /\ \E from_addr \in Addrs :
         LET i == IfaceOfAddr(interfaces, from_addr) IN
         /\ i # 0
         /\ \/ \* ca_session.unwrap_message(buf).unwrap() on an Err
               Panic(Died("recv", NoPkt, "unwrap_message"))
            \/ \E messages \in OuterBatches :
                 /\ Admissible(messages)
                 /\ stack' = SendTasks(messages, interfaces[i].id)
                 /\ pc' = "upkeep"
                 /\ draws' = 0
                 /\ sent' = <<>>
                 /\ last' = [Last("recv", NoPkt) EXCEPT !.from = from_addr,
                                !.iface = interfaces[i].id, !.out = messages]
                 /\ UNCHANGED <<interfaces, inner_conns, status>>

\* the same for a datagram of an unknown address: a new interface
RecvUnknown ==
    /\ Running /\ pc = "recv"
    /\ \E from_addr \in Addrs :
         /\ IfaceOfAddr(interfaces, from_addr) = 0
         /\ IF next_iface_id(interfaces) = -1
            THEN Panic(Died("recv", NoPkt, "no free iface id"))
            ELSE \/ \* Wrapper::new_incoming_connection(..).unwrap() on an Err
                    Panic(Died("recv", NoPkt, "new_incoming_connection"))
                 \/ \E message \in InPackets :
                      LET new_iface == Interface(next_iface_id(interfaces),
                                                 OuterSession(from_addr, "incoming"),
                                                 from_addr)
                      IN
                      /\ Admissible(<<message>>)
                      /\ interfaces' = Append(interfaces, new_iface)
                      /\ stack' = SendTasks(<<message>>, new_iface.id)
                      /\ pc' = "upkeep"
                      /\ draws' = 0
                      /\ sent' = <<>>
                      /\ last' = [Last("recv", NoPkt) EXCEPT !.from = from_addr,
                                     !.iface = new_iface.id, !.out = <<message>>]
                      /\ UNCHANGED <<inner_conns, status>>


----------------------------------------------------------------------------
(* send *)

\* the packet after packet.switch(3, &reverse_iface_id(from_interface))
Switched(packet, from_interface) ==
    [packet EXCEPT !.label = SwitchLabel(packet.label, reverse_iface_id(from_interface))]

\* a send that takes the Forward arm whatever the decision
SendArm_AlwaysForward(routing_decision) == "forward"

\* a send that hands every frame to on_self_interface_switch_packet
SendArm_AlwaysSelf(routing_decision) == "self"

\* match routing_decision: SelfInterface(_) => on_self_interface_switch_packet,
\* Forward(iface_id) => the loop over the interfaces
SendArm(routing_decision) ==
    IF routing_decision.to = "self" THEN "self" ELSE "forward"

\* a forward that floods every interface
ForwardTargets_All(ifs, iface_id) == 1..Len(ifs)

\* the interfaces the Forward arm wraps and sends to: if interface.id == iface_id
ForwardTargets(ifs, iface_id) == {i \in 1..Len(ifs) : ifs[i].id = iface_id}

\* for packet in interface.ca_session.wrap_message(&packet.raw): send_to(packet, addr),
\* for the interfaces i of targets in the order of the table; counts[i] is the
\* number of packets wrap_message returns for interface i
RECURSIVE ForwardDatagrams(_, _, _, _, _)
ForwardDatagrams(ifs, i, counts, targets, packet) ==
    IF i > Len(ifs) THEN <<>>
    ELSE (IF i \in targets THEN Repeat(Datagram(ifs[i], packet, "wrap"), counts[i]) ELSE <<>>)
         \o ForwardDatagrams(ifs, i + 1, counts, targets, packet)

\* send, the RoutingDecision::Forward arm
SendForward ==
    /\ At("send")
    /\ SendArm(SwitchDecision(Top.pkt.label)) = "forward"
    /\ LET iface_id == SwitchDecision(Top.pkt.label).director
           packet == Switched(Top.pkt, Top.from)
           targets == ForwardTargets(interfaces, iface_id)
       IN IF targets = {}
          THEN Panic([Died("forward", packet, "iface not found") EXCEPT !.iface = iface_id])
          ELSE /\ \E counts \in [targets -> 0..MaxWrap] :
                    sent' = ForwardDatagrams(interfaces, 1, counts, targets, packet)
               /\ stack' = Tail(stack)
               /\ last' = [Last("forward", packet) EXCEPT !.iface = iface_id]
               /\ UNCHANGED <<interfaces, inner_conns, status, pc, draws>>

\* send, the RoutingDecision::SelfInterface arm: on_self_interface_switch_packet
AtSelf(kind) ==
    /\ At("send")
    /\ SendArm(SwitchDecision(Top.pkt.label)) = "self"
    /\ Top.pkt.kind = kind

\* a Pong that carries the probe bytes instead of the Ping's
PongFor_FixedOpaque(switch_packet) ==
    new_reply(switch_packet, ControlPkt(<<>>, "pong", Version, Probe))

\* ControlPacket::Pong { version: 18, opaque_data } as a reply to the packet
PongFor(switch_packet) ==
    new_reply(switch_packet, ControlPkt(<<>>, "pong", Version, switch_packet.opaque))

\* ControlPacket::Ping { version: 18, opaque_data: vec![1, .., 8] } as a reply
PingFor(switch_packet) ==
    new_reply(switch_packet, ControlPkt(<<>>, "ping", Version, Probe))

SelfPing ==
    /\ AtSelf("ping")
    /\ LET switch_packet == Switched(Top.pkt, Top.from)
           packet_response == PongFor(switch_packet)
       IN /\ stack' = <<SendTask(packet_response, ReplyFrom), RandPingTask(switch_packet)>>
                      \o Tail(stack)
          /\ last' = [Last("ping", switch_packet) EXCEPT !.out = <<packet_response>>]
    /\ sent' = <<>>
    /\ UNCHANGED <<interfaces, inner_conns, status, pc, draws>>

\* a Pong arm that also calls random_send_switch_ping
SelfPong_WithHousekeeping ==
    /\ AtSelf("pong")
    /\ stack' = <<RandPingTask(Switched(Top.pkt, Top.from))>> \o Tail(stack)
    /\ last' = Last("pong", Switched(Top.pkt, Top.from))
    /\ sent' = <<>>
    /\ UNCHANGED <<interfaces, inner_conns, status, pc, draws>>

SelfPong ==
    /\ AtSelf("pong")
    /\ LET switch_packet == Switched(Top.pkt, Top.from) IN
       IF switch_packet.opaque # Probe
       THEN Panic(Died("pong", switch_packet, "assert_eq"))
       ELSE /\ stack' = Tail(stack)
            /\ last' = Last("pong", switch_packet)
            /\ sent' = <<>>
            /\ UNCHANGED <<interfaces, inner_conns, status, pc, draws>>

\* a handle drawn without the contains_key test
FreshHandles_Unchecked(conns) == Handles

\* loop { handle = next_u32(); if !contains_key(&handle) { break } }
FreshHandles(conns) == Handles \ DOMAIN conns

\* the label recorded as received
HandshakePath_NotReversed(switch_packet) == switch_packet.label

\* let path = { let mut path = switch_packet.label(); reverse_label(&mut path); path }
HandshakePath(switch_packet) == reverse_label(switch_packet.label)

\* a table rebuilt around the new entry
Insert_Alone(conns, handle, conn) == [h \in {handle} |-> conn]

\* HashMap::insert
Insert(conns, handle, conn) ==
    [h \in DOMAIN conns \cup {handle} |-> IF h = handle THEN conn ELSE conns[h]]

\* the inner packet new_incoming_connection returns with the session
FirstInner(ct) == IF ct.msgs = <<>> THEN <<>> ELSE Head(ct.msgs)

SelfHandshake ==
    /\ AtSelf("hs")
    /\ LET switch_packet == Switched(Top.pkt, Top.from)
           handshake == switch_packet.ct
       IN /\ FreshHandles(inner_conns) # {}
          /\ IF ~handshake.ok
             THEN \* Wrapper::new_incoming_connection(..).unwrap() on an Err
                  Panic(Died("hs", switch_packet, "new_incoming_connection"))
             ELSE \E handle \in FreshHandles(inner_conns) :
                    /\ inner_conns' = Insert(inner_conns, handle,
                                            InnerConn(HandshakePath(switch_packet),
                                                      handshake.pk, handshake.ph))
                    /\ stack' = <<InnerTask(switch_packet, handle, FirstInner(handshake)),
                                  RandPingTask(switch_packet)>> \o Tail(stack)
                    /\ last' = [Last("hs", switch_packet) EXCEPT !.handle = handle]
                    /\ sent' = <<>>
                    /\ UNCHANGED <<interfaces, status, pc, draws>>

\* a lookup that falls back on some open session
LookupHandle_Fallback(conns, handle) ==
    IF handle \in DOMAIN conns THEN handle
    ELSE IF DOMAIN conns = {} THEN NoHandle
    ELSE CHOOSE h \in DOMAIN conns : TRUE

\* self.inner_conns.get_mut(&handle): the handle whose session decrypts, 0 for None
LookupHandle(conns, handle) == IF handle \in DOMAIN conns THEN handle ELSE NoHandle

\* inner_conn.unwrap_message(ca_message): Ok for a packet of that session
UnwrapOk(conn, ca_message) == ca_message.ok /\ ca_message.pk = conn.their_pk

SelfData ==
    /\ AtSelf("data")
    /\ LET switch_packet == Switched(Top.pkt, Top.from)
           handle == switch_packet.handle
           found == LookupHandle(inner_conns, handle)
       IN IF found = NoHandle
          THEN Panic([Died("data", switch_packet, "unknown handle") EXCEPT !.handle = handle])
          ELSE IF ~UnwrapOk(inner_conns[found], switch_packet.ct)
          THEN Panic([Died("data", switch_packet, "CA error") EXCEPT !.handle = found])
          ELSE /\ stack' = InnerTasks(switch_packet, handle, switch_packet.ct.msgs)
                           \o Tail(stack)
               /\ last' = [Last("data", switch_packet) EXCEPT !.handle = found]
               /\ sent' = <<>>
               /\ UNCHANGED <<interfaces, inner_conns, status, pc, draws>>

\* _ => panic!("Can only handle Pings, Pongs, and CA.")
SelfOther ==
    /\ AtSelf("other")
    /\ Panic(Died("other", Switched(Top.pkt, Top.from), "can only handle"))


----------------------------------------------------------------------------
(* make_reply, reply_getpeers, random_send_getpeers, on_inner_ca_message *)

\* BigEndian::read_u32(&reply_content[0..4]) < 4, on the four bytes (the value
\* itself exceeds the integers of the model checker)
BelowHandshakeLimit(b) == b[1] = 0 /\ b[2] = 0 /\ b[3] = 0 /\ b[4] < HandshakeLimit

Reply(tag, why, pkt) == [tag |-> tag, why |-> why, pkt |-> pkt]

make_reply(replied_to_packet, reply_content, inner_conn) ==
    IF Len(reply_content.head) < 4
    THEN Reply("panic", "index out of bounds", NoPkt)
    ELSE IF BelowHandshakeLimit(reply_content.head)
    THEN Reply("ok", "", new_reply(replied_to_packet, HandshakePkt(<<>>, reply_content)))
    ELSE IF SubSeq(reply_content.head, 1, 4) = ControlMarker
    THEN Reply("panic", "not implemented", NoPkt)
    ELSE IF inner_conn.peer_handle = NoHandle
    THEN Reply("panic", "peer_session_handle", NoPkt)
    ELSE Reply("ok", "",
               new_reply(replied_to_packet, DataPkt(<<>>, inner_conn.peer_handle, reply_content)))

\* inner_conn.wrap_message_immediately(raw): one packet per head, each carrying
\* raw for the peer of the session (this switch cannot open them)
Wrapped(heads, inner_conn, raw) ==
    [i \in 1..Len(heads) |->
        [head |-> heads[i], pk |-> inner_conn.their_pk, ok |-> FALSE,
         ph |-> NoHandle, msgs |-> <<raw>>]]

\* the replies make_reply builds for a wrapped message, and the first panic among them
Replies(replied_to_packet, cts, inner_conn) ==
    [i \in 1..Len(cts) |-> make_reply(replied_to_packet, cts[i], inner_conn)]

FirstPanic(replies) ==
    LET bad == {i \in 1..Len(replies) : replies[i].tag = "panic"}
    IN IF bad = {} THEN "" ELSE replies[CHOOSE i \in bad : \A j \in bad : i <= j].why

ReplyPackets(replies) == [i \in 1..Len(replies) |-> replies[i].pkt]

\* the orders in which a HashMap may iterate over the handles S
Orders(S) == {f \in [1..Cardinality(S) -> S] : \A i, j \in 1..Cardinality(S) : f[i] = f[j] => i = j}

\* reply_getpeers without the test on the querying handle
Announced_Everyone(conns, handle) == DOMAIN conns

\* if *peer_handle != handle: the connections reply_getpeers announces
Announced(conns, handle) == {peer_handle \in DOMAIN conns : peer_handle # handle}

\* reply_getpeers, the node list: myself, then the announced connections in iteration order
GetPeersNodes(conns, order) ==
    <<NodeData(MyPk, SelfPath, Version)>>
    \o [i \in 1..Len(order) |->
          NodeData(conns[order[i]].their_pk, conns[order[i]].path, Version)]

\* RoutePacketBuilder::new(18, route_packet.transaction_id.clone()).nodes_vec(nodes)
GetPeersResponse(route_packet, nodes) ==
    DataPacketNew(DataVersion, Route("none", route_packet.tid, nodes))

\* RoutePacketBuilder::new(18, b"blah".to_vec()).query("gp".to_owned())
GetPeersQuery == DataPacketNew(DataVersion, Route("gp", BlahTid, <<>>))

InnerCaMessage ==
    /\ At("inner")
    /\ LET switch_packet == Top.pkt
           handle == Top.handle
           raw == Top.msg
           shown == DataPacket_fmt(raw)
           payload == DataPacket_payload(raw)
           here == [Last("inner", switch_packet) EXCEPT !.handle = handle, !.raw = raw,
                                                        !.dec = payload]
       IN IF shown.tag = "panic" \/ payload.tag # "ok"
          THEN \* println!("{}", data_packet), then data_packet.payload().unwrap()
               Panic([here EXCEPT !.why = IF shown.tag = "panic" THEN shown.why ELSE "unwrap"])
          ELSE IF payload.route.query # "gp"
          THEN /\ stack' = <<RandGpTask(switch_packet, handle)>> \o Tail(stack)
               /\ last' = here
               /\ sent' = <<>>
               /\ UNCHANGED <<interfaces, inner_conns, status, pc, draws>>
          ELSE \* reply_getpeers
               \E order \in Orders(Announced(inner_conns, handle)), heads \in WrapOutputs :
                 LET nodes == GetPeersNodes(inner_conns, order)
                     getpeers_response == GetPeersResponse(payload.route, nodes)
                     inner_conn == inner_conns[handle]
                     responses == Replies(switch_packet,
                                          Wrapped(heads, inner_conn, getpeers_response),
                                          inner_conn)
                 IN IF FirstPanic(responses) # ""
                    THEN Panic([here EXCEPT !.nodes = nodes, !.why = FirstPanic(responses)])
                    ELSE /\ stack' = SendTasks(ReplyPackets(responses), ReplyFrom)
                                     \o <<RandGpTask(switch_packet, handle)>> \o Tail(stack)
                         /\ last' = [here EXCEPT !.nodes = nodes,
                                                 !.out = ReplyPackets(responses)]
                         /\ sent' = <<>>
                         /\ UNCHANGED <<interfaces, inner_conns, status, pc, draws>>

\* if rand::thread_rng().next_u32() > 0xafffffff, for the get-peers query
RandomSendGetpeers ==
    /\ At("random_send_getpeers")
    /\ \/ /\ stack' = Tail(stack)
          /\ last' = Last("random_send_getpeers", Top.pkt)
          /\ sent' = <<>>
          /\ UNCHANGED <<interfaces, inner_conns, status, pc, draws>>
       \/ /\ draws < MaxDraws
          /\ \E heads \in WrapOutputs :
               LET inner_conn == inner_conns[Top.handle]
                   responses == Replies(Top.pkt, Wrapped(heads, inner_conn, GetPeersQuery),
                                        inner_conn)
                   here == [Last("random_send_getpeers", Top.pkt) EXCEPT !.handle = Top.handle]
               IN IF FirstPanic(responses) # ""
                  THEN Panic([here EXCEPT !.why = FirstPanic(responses)])
                  ELSE /\ stack' = SendTasks(ReplyPackets(responses), ReplyFrom) \o Tail(stack)
                       /\ draws' = draws + 1
                       /\ last' = [here EXCEPT !.out = ReplyPackets(responses)]
                       /\ sent' = <<>>
                       /\ UNCHANGED <<interfaces, inner_conns, status, pc>>

\* the same draw for the keep-alive ping
RandomSendSwitchPing ==
    /\ At("random_send_switch_ping")
    /\ \/ /\ stack' = Tail(stack)
          /\ last' = Last("random_send_switch_ping", Top.pkt)
          /\ draws' = draws
       \/ /\ draws < MaxDraws
          /\ stack' = <<SendTask(PingFor(Top.pkt), ReplyFrom)>> \o Tail(stack)
          /\ last' = [Last("random_send_switch_ping", Top.pkt) EXCEPT !.out = <<PingFor(Top.pkt)>>]
          /\ draws' = draws + 1
    /\ sent' = <<>>
    /\ UNCHANGED <<interfaces, inner_conns, status, pc>>

----------------------------------------------------------------------------

Next ==
    \/ Upkeep
    \/ RecvKnown
    \/ RecvUnknown
    \/ SendForward
    \/ SelfPing
    \/ SelfPong
    \/ SelfHandshake
    \/ SelfData
    \/ SelfOther
    \/ InnerCaMessage
    \/ RandomSendGetpeers
    \/ RandomSendSwitchPing

Spec == Init /\ [][Next]_vars


----------------------------------------------------------------------------
(* The handling of a datagram as a run that has to end.  Spec takes the     *)
(* handle loop of the handshake arm at its exit; here the draws that hit a  *)
(* key of the table are steps of their own, and the process, a sequential   *)
(* program, always takes a next step when it has one.                       *)

\* loop { handle = next_u32(); if !contains_key(&handle) { break } }, for a draw
\* that is a key of the table: the loop goes round
HandshakeRedraw ==
    /\ AtSelf("hs")
    /\ \E handle \in Handles \ FreshHandles(inner_conns) :
         last' = [Last("hs_redraw", Switched(Top.pkt, Top.from)) EXCEPT !.handle = handle]
    /\ sent' = <<>>
    /\ UNCHANGED <<interfaces, inner_conns, status, pc, stack, draws>>

LiveNext == Next \/ HandshakeRedraw

LiveSpec == Init /\ [][LiveNext]_vars /\ WF_vars(LiveNext)

----------------------------------------------------------------------------
(* The label router on its own: reverse_iface_id and reverse_label applied    *)
(* once and twice to every interface id and every label of the bounds.  The   *)
(* input is the one task of `stack' (its frame's label, its `from' the        *)
(* interface id); last.out lists the results so far.                          *)

\* a u8 interface id: the eight directors, and two values above 0b111
IfaceIds8 == 0..8 \cup {255}
Labels == UNION {[1..n -> 0..7] : n \in 1..MaxWindows}

RouterTask(label, iface_id) == Task("router", OtherPkt(label), iface_id, NoHandle, <<>>)

RouterInit ==
    /\ interfaces = <<Interface(StaticId, OuterSession(StaticAddr, "outgoing"), StaticAddr)>>
    /\ inner_conns = <<>>
    /\ status = "running"
    /\ pc = "router"
    /\ stack \in {<<RouterTask(label, iface_id)>> : label \in Labels, iface_id \in IfaceIds8}
    /\ draws = 0
    /\ sent = <<>>
    /\ last = Last("new", NoPkt)

\* the value the next application takes: the input, then the previous result
Operand(input) == IF last.out = <<>> THEN input ELSE last.out[Len(last.out)]

Applicable(op) ==
    /\ Running /\ pc = "router"
    /\ last.op \in {"new", op}
    /\ Len(last.out) < 2

ReverseIfaceId ==
    /\ Applicable("reverse_iface_id")
    /\ LET reversed == reverse_iface_id(Operand(Top.from)) IN
       IF reversed = -1
       THEN \* _ => panic!("Iface id greater than 0b111")
            Panic(Died("reverse_iface_id", Top.pkt, "Iface id greater than 0b111"))
       ELSE /\ last' = [Last("reverse_iface_id", Top.pkt) EXCEPT
                           !.out = Append(last.out, reversed)]
            /\ UNCHANGED <<interfaces, inner_conns, status, pc, stack, draws, sent>>

ReverseLabel ==
    /\ Applicable("reverse_label")
    /\ last' = [Last("reverse_label", Top.pkt) EXCEPT
                   !.out = Append(last.out, reverse_label(Operand(Top.pkt.label)))]
    /\ UNCHANGED <<interfaces, inner_conns, status, pc, stack, draws, sent>>

RouterNext == ReverseIfaceId \/ ReverseLabel

RouterSpec == RouterInit /\ [][RouterNext]_vars

----------------------------------------------------------------------------
(* Properties *)

Count(seq, v) == Cardinality({i \in 1..Len(seq) : seq[i] = v})

GetPeersHandled ==
    last.op = "inner" /\ last.dec.tag = "ok" /\ last.dec.route.query = "gp"

EntryOf(h) == NodeData(inner_conns[h].their_pk, inner_conns[h].path, Version)
SelfEntry == NodeData(MyPk, SelfPath, Version)

\* C1: the node list reply_getpeers builds for a get-peers query received over
\* connection h holds one entry for self and one entry (remote key, recorded
\* reverse label) for every inner connection other than h, and nothing else:
\* every value occurs as often as self and the connections other than h have it.
C1_GetPeersListsOthers ==
    GetPeersHandled =>
        LET others == DOMAIN inner_conns \ {last.handle}
            values == {last.nodes[i] : i \in 1..Len(last.nodes)}
                      \cup {EntryOf(h) : h \in DOMAIN inner_conns} \cup {SelfEntry}
        IN /\ Len(last.nodes) = 1 + Cardinality(others)
           /\ \A v \in values :
                Count(last.nodes, v) = (IF v = SelfEntry THEN 1 ELSE 0)
                                       + Cardinality({h \in others : EntryOf(h) = v})

\* a query over one of two connections whose entries differ: the list is self
\* and the other connection's entry
C1_Witness ==
    /\ GetPeersHandled
    /\ Cardinality(DOMAIN inner_conns) = 2
    /\ \E a, b \in DOMAIN inner_conns :
         /\ a = last.handle /\ b # a /\ EntryOf(a) # EntryOf(b)
         /\ last.nodes = <<SelfEntry, EntryOf(b)>>

\* the send tasks carrying a Pong among the calls the last step queued
QueuedPongs == {i \in 1..Len(stack) : i <= 2 /\ stack[i].op = "send" /\ stack[i].pkt.kind = "pong"}

\* C2: handling a Ping delivered to self queues exactly one Pong, sent as a
\* reply to the Ping's frame, of version 18 and with the Ping's opaque data.
C2_PongEchoesPing ==
    last.op = "ping" =>
        /\ Cardinality(QueuedPongs) = 1
        /\ \A i \in QueuedPongs :
             /\ stack[i].pkt.opaque = last.pkt.opaque
             /\ stack[i].pkt.version = 18
             /\ stack[i].pkt.label = reverse_label(last.pkt.label)
             /\ stack[i].from = ReplyFrom
        /\ (last.pkt.version = 18 /\ last.pkt.opaque = <<1, 2, 3, 4, 5, 6, 7, 8>>) =>
             \A i \in QueuedPongs : stack[i].pkt.opaque = <<1, 2, 3, 4, 5, 6, 7, 8>>

C2_Witness ==
    /\ last.op = "ping" /\ last.pkt.version = 18 /\ last.pkt.opaque = Probe
    /\ Head(stack).pkt.kind = "pong" /\ Head(stack).pkt.opaque = Probe

\* C3: the handle allocated for a handshake delivered to self is not in the
\* inner-connection table, and registering it leaves every existing entry as
\* it was.
C3_HandleIsFresh ==
    [][ /\ \A h \in DOMAIN inner_conns :
             h \in DOMAIN inner_conns' /\ inner_conns'[h] = inner_conns[h]
        /\ (AtSelf("hs") /\ status' = "running") =>
             /\ last'.handle \notin DOMAIN inner_conns
             /\ DOMAIN inner_conns' = DOMAIN inner_conns \cup {last'.handle} ]_vars

\* a second connection registered beside an existing one
C3_Witness ==
    /\ last.op = "hs" /\ status = "running"
    /\ Cardinality(DOMAIN inner_conns) = 2

IfaceIds(ifs) == {ifs[i].id : i \in 1..Len(ifs)}

\* C4: every interface has a director id in 0..7, no two interfaces share one,
\* and each interface admitted from an unknown address (appended after the
\* interfaces that existed then) has the lowest id none of those uses.
C4_DirectorIds ==
    /\ \A i \in 1..Len(interfaces) : interfaces[i].id \in 0..7
    /\ \A i, j \in 1..Len(interfaces) : interfaces[i].id = interfaces[j].id => i = j
    /\ \A k \in 2..Len(interfaces) :
         LET existing == IfaceIds(SubSeq(interfaces, 1, k - 1)) IN
         /\ interfaces[k].id \notin existing
         /\ \A c \in 0..7 : c < interfaces[k].id => c \in existing

C4_Witness ==
    /\ Len(interfaces) = 3
    /\ interfaces[2].id = 0 /\ interfaces[3].id = 1

\* C5: the inner connection registered for a handshake delivered to self
\* records the reverse of the label of the frame that carried it, and the
\* recorded label of a connection never changes afterwards.
C5_ReversePathRecorded ==
    [][ /\ \A h \in DOMAIN inner_conns :
             h \in DOMAIN inner_conns' => inner_conns'[h].path = inner_conns[h].path
        /\ \A h \in DOMAIN inner_conns' \ DOMAIN inner_conns :
             /\ AtSelf("hs")
             /\ inner_conns'[h].path = reverse_label(Top.pkt.label) ]_vars

\* a connection whose recorded label <<0, 4>> reverses the <<0, 1>> it came
\* with, still there after a later data packet
C5_Witness ==
    /\ last.op = "data" /\ status = "running"
    /\ \E h \in DOMAIN inner_conns : inner_conns[h].path = <<0, 4>>

\* C6: no step removes an interface or an inner connection; the key set of
\* the inner-connection table changes only when a handshake is delivered to
\* self, by exactly one key, and not on a Ping, a Pong, a data packet or a
\* forwarded frame.
C6_TablesOnlyGrow ==
    [][ /\ Len(interfaces') >= Len(interfaces)
        /\ SubSeq(interfaces', 1, Len(interfaces)) = interfaces
        /\ DOMAIN inner_conns \subseteq DOMAIN inner_conns'
        /\ DOMAIN inner_conns' # DOMAIN inner_conns =>
             /\ AtSelf("hs")
             /\ Cardinality(DOMAIN inner_conns') = Cardinality(DOMAIN inner_conns) + 1
        /\ (AtSelf("ping") \/ AtSelf("pong") \/ AtSelf("data")
              \/ (At("send") /\ SwitchDecision(Top.pkt.label).to = "forward")) =>
             DOMAIN inner_conns' = DOMAIN inner_conns ]_vars

\* both tables filled, and a data packet handled after that
C6_Witness ==
    /\ last.op = "data" /\ status = "running"
    /\ Cardinality(DOMAIN inner_conns) = 2 /\ Len(interfaces) = 3

\* C7: a data packet delivered to self under a handle that is not in the
\* table ends the process, with nothing sent, nothing queued and no table
\* changed; under a known handle it is opened only by the session stored
\* under that handle.
C7_UnknownHandleIsFatal ==
    [][ AtSelf("data") =>
          IF Top.pkt.handle \notin DOMAIN inner_conns
          THEN /\ status' = "panicked"
               /\ sent' = <<>>
               /\ stack' = stack
               /\ interfaces' = interfaces
               /\ inner_conns' = inner_conns
          ELSE status' = "running" =>
                 /\ last'.handle = Top.pkt.handle
                 /\ Top.pkt.ct.ok
                 /\ Top.pkt.ct.pk = inner_conns[Top.pkt.handle].their_pk ]_vars

\* an unknown handle while other connections are open
C7_Witness ==
    /\ last.op = "data" /\ status = "panicked" /\ last.why = "unknown handle"
    /\ DOMAIN inner_conns # {}
    /\ last.pkt.handle \notin DOMAIN inner_conns

\* C8: for a frame forwarded to director d, every datagram transmitted is
\* wrapped with the outer session of the interface whose id is d, goes to that
\* interface's address and carries the frame; with no such interface the
\* process ends and nothing is transmitted.
C8_ForwardToOneInterface ==
    last.op = "forward" =>
        LET targets == {i \in 1..Len(interfaces) : interfaces[i].id = last.iface} IN
        IF targets = {}
        THEN status = "panicked" /\ sent = <<>>
        ELSE /\ status = "running"
             /\ \A n \in 1..Len(sent) :
                  \E i \in targets :
                    /\ sent[n].to = interfaces[i].addr
                    /\ sent[n].session = interfaces[i].ca_session
                    /\ sent[n].packet = last.pkt
                    /\ sent[n].kind = "wrap"

\* a frame transmitted to one of three interfaces
C8_Witness ==
    /\ last.op = "forward" /\ status = "running"
    /\ Len(interfaces) = 3 /\ Len(sent) >= 1
    /\ sent[1].to = "a2"

\* C9: the payload of a data packet whose content type is not 256 decodes to
\* an error value, without a panic, and the process goes on.
C9_UnsupportedContentTypeIsError ==
    (last.op = "inner" /\ Len(last.raw) >= 4 /\ last.raw[3] * 256 + last.raw[4] # 256) =>
        /\ last.dec.tag = "err"
        /\ status = "running"

\* C10: content_type() and payload() of a data packet shorter than its
\* four-byte header return an error value, without a panic.
C10_TruncatedIsError ==
    (last.op = "inner" /\ Len(last.raw) < 4) =>
        /\ DataPacket_content_type(last.raw).tag = "err"
        /\ last.dec.tag = "err"
        /\ status = "running"

\* the tables, the status and nothing queued: what a dropped frame leaves
Dropped ==
    /\ status' = "running"
    /\ interfaces' = interfaces
    /\ inner_conns' = inner_conns
    /\ Len(stack') <= Len(stack)

\* C11: when the crypto layer rejects a handshake (new_incoming_connection
\* returns an error for the datagram of an unknown address, or for a handshake
\* delivered to self), the attempt is dropped: the process keeps running, no
\* interface and no inner connection is registered and nothing is queued.
C11_HandshakeErrorIsDropped ==
    [][ (\/ AtSelf("hs") /\ ~Top.pkt.ct.ok
         \/ last'.why = "new_incoming_connection") => Dropped ]_vars

\* C12: when an established session fails to decrypt (unwrap_message returns
\* an error for the datagram of a known interface, or for a data packet under
\* a known handle), the datagram is dropped: the process keeps running, and
\* both tables stay as they were.
C12_SessionErrorIsDropped ==
    [][ (\/ /\ AtSelf("data")
            /\ Top.pkt.handle \in DOMAIN inner_conns
            /\ ~UnwrapOk(inner_conns[Top.pkt.handle], Top.pkt.ct)
         \/ last'.why = "unwrap_message") => Dropped ]_vars

\* C13: a frame delivered to self whose payload is none of Ping, Pong,
\* handshake, data, or a data packet of content type 256 whose route bytes do
\* not decode, is dropped: the process keeps running, the tables are unchanged,
\* nothing is sent and nothing is queued.
C13_UndecodablePayloadIsDropped ==
    [][ (\/ AtSelf("other")
         \/ At("inner") /\ DataPacket_fmt(Top.msg).tag = "ok"
                        /\ DataPacket_payload(Top.msg).tag = "err") =>
          (Dropped /\ sent' = <<>>) ]_vars

\* the table of the director bit-reversal, for the directors 0 to 7 in order
ReversalTable == <<0, 4, 2, 6, 1, 5, 3, 7>>

\* C14: reverse_iface_id maps 0->0, 1->4, 2->2, 3->6, 4->1, 5->5, 6->3, 7->7,
\* applying it twice to any of these eight values gives the value back, and
\* applied to a value above 7 it ends the process.
C14_ReverseIfaceIdInvolution ==
    (pc = "router" /\ last.op = "reverse_iface_id") =>
        LET iface_id == Top.from IN
        IF iface_id \in 0..7
        THEN /\ status = "running"
             /\ last.out[1] = ReversalTable[iface_id + 1]
             /\ Len(last.out) = 2 => last.out[2] = iface_id
        ELSE status = "panicked" /\ last.out = <<>>

\* 0b011 reversed to 0b110 and back
C14_Witness ==
    /\ pc = "router" /\ last.op = "reverse_iface_id"
    /\ Top.from = 3 /\ last.out = <<6, 3>>

\* C15: reverse_label replaces every window of a label by its bit-reversal and
\* keeps the windows in their order, and applied twice it gives the label back.
C15_ReverseLabelInvolution ==
    (pc = "router" /\ last.op = "reverse_label") =>
        LET label == Top.pkt.label IN
        /\ Len(last.out[1]) = Len(label)
        /\ \A i \in 1..Len(label) : last.out[1][i] = ReversalTable[label[i] + 1]
        /\ Len(last.out) = 2 => last.out[2] = label

\* a label of two different windows, neither its own reversal, reversed twice
C15_Witness ==
    /\ pc = "router" /\ last.op = "reverse_label"
    /\ Top.pkt.label = <<1, 3>> /\ last.out = <<<<4, 6>>, <<1, 3>>>>

SelfOps == {"ping", "pong", "hs", "data", "other"}

\* C16: send hands a frame whose first director window is 0, whatever its
\* other windows, to the self-delivery dispatch (the arm of its payload kind),
\* and that step transmits nothing to any interface.
C16_DirectorZeroIsSelf ==
    [][ (At("send") /\ Top.pkt.label[1] = 0) =>
          /\ last'.op \in SelfOps
          /\ last'.op = Top.pkt.kind
          /\ sent' = <<>> ]_vars

\* a Pong delivered to self on the label <<0, 4>>, while an interface has the
\* director id 0
C16_Witness ==
    /\ last.op = "pong" /\ status = "running"
    /\ last.pkt.label = <<0, 4>>
    /\ \E i \in 1..Len(interfaces) : interfaces[i].id = 0

\* the datagrams of dgrams that carry upkeep output of interface iface
UpkeepOf(dgrams, iface) ==
    {n \in 1..Len(dgrams) : /\ dgrams[n].to = iface.addr
                            /\ dgrams[n].session = iface.ca_session
                            /\ dgrams[n].kind = "upkeep"}

\* dgrams is the output of one sweep: for every interface of ifs as many
\* datagrams as its upkeep() returned, to its address, and no other datagram
SweepOf(dgrams, ifs, counts) ==
    /\ Len(counts) = Len(ifs)
    /\ \A i \in 1..Len(ifs) : Cardinality(UpkeepOf(dgrams, ifs[i])) = counts[i]
    /\ \A n \in 1..Len(dgrams) : \E i \in 1..Len(ifs) : n \in UpkeepOf(dgrams, ifs[i])

\* C17: every receive is immediately preceded by a maintenance sweep, which
\* sent the upkeep output of every interface registered then (the admitted
\* ones too) to that interface's address and nothing else; a sweep starts only
\* when the previous datagram's handling is over, and a datagram's frames are
\* queued for dispatch only by the receive that follows a sweep.
C17_SweepPrecedesReceive ==
    [][ /\ last'.op = "recv" =>
             /\ pc = "recv" /\ last.op = "upkeep"
             /\ SweepOf(sent, interfaces, last.out)
        /\ last'.op = "upkeep" =>
             /\ stack = <<>> /\ pc = "upkeep"
             /\ SweepOf(sent', interfaces, last'.out)
        /\ (stack = <<>> /\ stack' # <<>>) => last'.op = "recv" ]_vars

\* a sweep that sent upkeep output to three interfaces, two of them admitted
\* at run time, with the receive next
C17_Witness ==
    /\ last.op = "upkeep" /\ pc = "recv" /\ status = "running"
    /\ Len(interfaces) = 3 /\ last.out = <<1, 1, 1>>
    /\ Len(sent) = 3 /\ sent[3].to = interfaces[3].addr

\* C18: the handling of a received datagram ends: once frames are queued for
\* dispatch, the queue of pending calls empties (control is back in loop_) or
\* the process has died, whatever the frames, the tables and the random draws.
C18_HandlingTerminates ==
    [](stack # <<>> => <>(stack = <<>> \/ status = "panicked"))

\* C19: director 0 means this switch: no registered interface has the
\* director id 0, whatever peers were admitted.
C19_DirectorZeroReserved ==
    \A i \in 1..Len(interfaces) : interfaces[i].id # 0

\* the get-peers query the last step decoded, when it decoded a route packet
DecodedRoute == last.op = "inner" /\ last.dec.tag = "ok"

\* packet is a reply to the frame of the last step that carries raw, encrypted
\* by the session of the inner connection under handle
ReplyCarrying(packet, handle, raw) ==
    /\ packet.kind \in {"hs", "data"}
    /\ packet.label = reverse_label(last.pkt.label)
    /\ packet.ct.pk = inner_conns[handle].their_pk
    /\ packet.ct.msgs = <<raw>>

\* C20: on_inner_ca_message produces a get-peers response exactly when the
\* decoded route packet's query is "gp"; the response carries the query's
\* transaction id, is encrypted by the session of the connection the query
\* arrived on, and every ciphertext of it is queued to be sent, first in line,
\* as a reply to the frame that carried the query.
C20_GetPeersResponseIsSent ==
    DecodedRoute =>
        IF last.dec.route.query = "gp"
        THEN /\ status = "running"
             /\ Len(stack) >= Len(last.out)
             /\ \A i \in 1..Len(last.out) :
                  /\ stack[i] = SendTask(last.out[i], ReplyFrom)
                  /\ \E raw \in {last.out[i].ct.msgs[1]} :
                       /\ ReplyCarrying(last.out[i], last.handle, raw)
                       /\ DataPacket_payload(raw).tag = "ok"
                       /\ DataPacket_payload(raw).route.query = "none"
                       /\ DataPacket_payload(raw).route.tid = last.dec.route.tid
                       /\ DataPacket_payload(raw).route.nodes = last.nodes
        ELSE last.out = <<>> /\ last.nodes = <<>>

\* the last step handed the ciphertexts of a wrapped message to make_reply
ReplyBuilt ==
    \/ DecodedRoute /\ last.dec.route.query = "gp"
    \/ last.op = "random_send_getpeers" /\ last.handle # NoHandle

\* C21: make_reply wraps a ciphertext whose first four bytes, read big-endian,
\* are below 4 as a CryptoAuthHandshake reply without a handle, and any other
\* one as a CryptoAuthData reply under the handle the peer announced; the read
\* is bounds-checked, so a ciphertext shorter than four bytes or starting with
\* 0xFFFFFFFF does not end the process.
C21_MakeReplyClassifies ==
    ReplyBuilt =>
        /\ status = "panicked" => last.why \notin {"index out of bounds", "not implemented"}
        /\ \A i \in 1..Len(last.out) :
             IF BelowHandshakeLimit(last.out[i].ct.head)
             THEN last.out[i].kind = "hs" /\ last.out[i].handle = NoHandle
             ELSE /\ last.out[i].kind = "data"
                  /\ last.out[i].handle = inner_conns[last.handle].peer_handle

\* C22: a Pong delivered to self is only compared with the probe bytes: the
\* step sends nothing, queues nothing, leaves both tables as they were, and
\* the process keeps running also when the bytes differ.
C22_PongMismatchIsLogged ==
    [][ AtSelf("pong") => (Dropped /\ sent' = <<>> /\ stack' = Tail(stack)) ]_vars

\* the pending calls of s to the housekeeping function op
Attempts(s, op) == Cardinality({i \in 1..Len(s) : s[i].op = op})

\* the housekeeping of one step, where a get-peers query may be triggered by
\* the frames of the kinds gp_triggers: a call of random_send_switch_ping is
\* queued only by the Ping arm and the handshake arm, one per frame, and a
\* call of random_send_getpeers only for an inner packet of such a frame, one
\* per packet; a Ping emitted is one reply of version 18 with the probe bytes,
\* to a Ping or a handshake; a query emitted is a get-peers query to such a frame
Housekeeping(gp_triggers) ==
    /\ Attempts(stack', "random_send_switch_ping") > Attempts(stack, "random_send_switch_ping") =>
         /\ AtSelf("ping") \/ AtSelf("hs")
         /\ Attempts(stack', "random_send_switch_ping")
              = Attempts(stack, "random_send_switch_ping") + 1
    /\ Attempts(stack', "random_send_getpeers") > Attempts(stack, "random_send_getpeers") =>
         /\ At("inner") /\ Top.pkt.kind \in gp_triggers
         /\ Attempts(stack', "random_send_getpeers")
              = Attempts(stack, "random_send_getpeers") + 1
    /\ (At("random_send_switch_ping") /\ last'.out # <<>>) =>
         /\ Top.pkt.kind \in {"ping", "hs"}
         /\ Len(last'.out) = 1
         /\ last'.out[1].kind = "ping" /\ last'.out[1].version = 18
         /\ last'.out[1].opaque = <<1, 2, 3, 4, 5, 6, 7, 8>>
         /\ stack' = <<SendTask(last'.out[1], ReplyFrom)>> \o Tail(stack)
    /\ (At("random_send_getpeers") /\ last'.out # <<>>) =>
         /\ Top.pkt.kind \in gp_triggers
         /\ \A i \in 1..Len(last'.out) :
              /\ Len(last'.out[i].ct.msgs) = 1
              /\ DataPacket_payload(last'.out[i].ct.msgs[1]).tag = "ok"
              /\ DataPacket_payload(last'.out[i].ct.msgs[1]).route.query = "gp"

\* C23 as stated: housekeeping, the keep-alive Ping and the get-peers query
\* alike, is attempted only while a handshake or a Ping delivered to self is
\* handled, once per trigger, never for a Pong or a CryptoAuthData frame.
C23_HousekeepingOnHandshakeOrPing ==
    [][ Housekeeping({"hs"}) ]_vars

\* C23 amended: the keep-alive Ping (version 18, probe bytes) is attempted only
\* while a handshake or a Ping delivered to self is handled, once per frame;
\* the get-peers query is attempted once per decoded inner packet, of a
\* handshake or of a CryptoAuthData frame; nothing is attempted for a Pong.
C23_HousekeepingPerTrigger ==
    [][ Housekeeping({"hs", "data"}) ]_vars

\* a get-peers query emitted as a reply to a CryptoAuthData frame
C23_Witness ==
    /\ last.op = "random_send_getpeers" /\ status = "running"
    /\ last.out # <<>> /\ last.pkt.kind = "data"

\* the interfaces of ifs at the address addr
AtAddr(ifs, addr) == {i \in 1..Len(ifs) : ifs[i].addr = addr}

\* C24: a datagram from the address of a registered interface registers no
\* interface and its frames are all queued for send with that interface's
\* director id, in the order they were unwrapped; a datagram from any address
\* is routed with the id of the interface at that address; and no two
\* interfaces ever have the same address.
C24_KnownAddressKeepsInterface ==
    [][ /\ \A i, j \in 1..Len(interfaces') :
             interfaces'[i].addr = interfaces'[j].addr => i = j
        /\ (pc = "recv" /\ last'.op = "recv" /\ status' = "running") =>
             /\ AtAddr(interfaces, last'.from) # {} =>
                  /\ interfaces' = interfaces
                  /\ \A i \in AtAddr(interfaces, last'.from) : last'.iface = interfaces[i].id
             /\ \E i \in AtAddr(interfaces', last'.from) : last'.iface = interfaces'[i].id
             /\ Len(stack') = Len(last'.out)
             /\ \A k \in 1..Len(stack') :
                  stack'[k] = SendTask(last'.out[k], last'.iface) ]_vars

\* two frames of one datagram from a1, an interface admitted earlier, queued
\* with its id while three interfaces are registered
C24_Witness ==
    /\ last.op = "recv" /\ status = "running"
    /\ Len(interfaces) = 3 /\ interfaces[2].addr = "a1" /\ last.from = "a1"
    /\ last.iface = interfaces[2].id
    /\ Len(stack) = 2 /\ stack[2].from = interfaces[2].id

\* the payload of a switch packet: everything but its label
PayloadOf(packet) ==
    [kind |-> packet.kind, version |-> packet.version, opaque |-> packet.opaque,
     handle |-> packet.handle, ct |-> packet.ct]

\* C25: send does not interpret a frame whose routing decision is Forward: the
\* step decodes nothing, uses no inner session, queues no reply and no
\* housekeeping, makes no random draw, leaves both tables as they were, and
\* what it transmits carries the frame's payload as received.
C25_ForwardIsNotInterpreted ==
    [][ (At("send") /\ SwitchDecision(Top.pkt.label).to = "forward") =>
          /\ last'.op = "forward"
          /\ last'.dec = NoResult /\ last'.out = <<>> /\ last'.handle = NoHandle
          /\ inner_conns' = inner_conns
          /\ interfaces' = interfaces
          /\ draws' = draws
          /\ stack' = (IF status' = "running" THEN Tail(stack) ELSE stack)
          /\ \A n \in 1..Len(sent') : PayloadOf(sent'[n].packet) = PayloadOf(Top.pkt) ]_vars

\* a CryptoAuthData frame forwarded to a peer although its handle is a key of
\* the inner-connection table of this switch
C25_Witness ==
    /\ last.op = "forward" /\ status = "running"
    /\ last.pkt.kind = "data" /\ last.pkt.handle \in DOMAIN inner_conns
    /\ Len(sent) >= 1

============================================================================
